---- MODULE Spec2Model ----
(***************************************************************************)
(* Model of removedeadservers.py: read a list of DNS servers, probe each   *)
(* one through a bounded thread pool, keep the responsive ones, sort them  *)
(* and write them out.                                                     *)
(*                                                                         *)
(* A line of text is a sequence of one-character strings.                  *)
(***************************************************************************)
EXTENDS Integers, Sequences, FiniteSets, TLC

VARIABLES
    file,               \* the input file: a sequence of raw lines
    dns,                \* what the network does to the probe of candidate i
    workers,            \* args.workers
    pc,                 \* position of main()
    lineNo,             \* lines of the input consumed so far (enumerate's i)
    servers_to_test,    \* list of {'ip', 'original_line'}
    warnings,           \* the "Could not parse" warnings printed
    total_servers,
    submitted,          \* number of executor.submit calls made
    queue,              \* the executor's FIFO work queue (candidate indexes)
    nThreads,           \* worker threads the executor has started
    idleSem,            \* the executor's idle semaphore
    inSubmit,           \* main is inside executor.submit, after the put
    adjust,             \* where main is in submit: none, acquire, start, return
    taken,              \* candidates a worker took from the queue, not yet called
    running,            \* candidates whose probe is in flight
    releasing,          \* workers back from a work item, semaphore not released
    future,             \* state of each future: pending, or its result
    probeCount,         \* calls of test_dns_server made per candidate
    consumed,           \* futures yielded by as_completed so far
    loopAt,             \* where main is in the loop body: next, result,
                        \* status, print
    cur,                \* the candidate whose future the loop body handles
    tested_count,
    responsive_servers,
    statuses,           \* status reported for each candidate
    outState,           \* output file: untouched, open, closed
    outFile,            \* strings written to the output file
    written,            \* lines of responsive_servers written so far
    exitStatus,         \* process exit status; -1 while the process runs
    message,            \* the last message main printed on its way out
    progress,           \* the progress reports printed: tested/total
    pq,                 \* input of a single call of test_dns_server
    pres,               \* result of that call
    pline,              \* a single line given to the body of the reading loop
    pip                 \* what the body of the loop made of that line

vars == <<file, dns, workers, pc, lineNo, servers_to_test, warnings,
          total_servers, submitted, queue, nThreads, idleSem, running, future,
          probeCount, consumed, tested_count, responsive_servers, statuses,
          outState, outFile, written, exitStatus, message, progress, pq, pres,
          pline, pip, inSubmit, taken, releasing, adjust, loopAt, cur>>

mainVars == <<file, dns, workers, pc, lineNo, servers_to_test, warnings,
              total_servers, submitted, queue, nThreads, idleSem, running,
              future, probeCount, consumed, tested_count, responsive_servers,
              statuses, outState, outFile, written, exitStatus,
              message, progress, inSubmit, taken, releasing, adjust,
              loopAt, cur>>

----------------------------------------------------------------------------
(* Bounds *)

MaxLines == 2        \* lines in the input file
MaxWorkers == 2      \* largest value of --workers
MaxRecords == 2      \* records in an answer set
MaxElapsed == 2      \* measured duration of a query, in timeout units
MaxTimeout == 2      \* largest value of --timeout
MaxLineLen == 4      \* characters of a line given to the loop body alone

----------------------------------------------------------------------------
(* Characters and strings *)

\* Code point of a character (Python compares strings by code point).
Ord(c) ==
    CASE c = "\t" -> 9
      [] c = " "  -> 32
      [] c = "#"  -> 35
      [] c = "."  -> 46
      [] c = "1"  -> 49
      [] c = "2"  -> 50
      [] c = ":"  -> 58
      [] c = "a"  -> 97
      [] c = "b"  -> 98
      [] c = "g"  -> 103
      [] c = "\n" -> 10

\* str.isspace / regex \s
IsSpace(c) == c \in {" ", "\t", "\n"}

\* regex class [0-9a-fA-F:.]
IsIpChar(c) == c \in {"1", "2", "a", "b", ":", "."}

RECURSIVE LStrip(_)
LStrip(s) == IF s # <<>> /\ IsSpace(Head(s)) THEN LStrip(Tail(s)) ELSE s

RECURSIVE RStrip(_)
RStrip(s) ==
    IF s # <<>> /\ IsSpace(s[Len(s)]) THEN RStrip(SubSeq(s, 1, Len(s) - 1))
    ELSE s

\* str.strip()
Strip(s) == RStrip(LStrip(s))

\* str.startswith(c) for a one-character prefix
StartsWith(s, c) == s # <<>> /\ Head(s) = c

\* Python's str <= str: lexicographic by code point, a proper prefix is smaller.
RECURSIVE StrLeq(_, _)
StrLeq(s, t) ==
    IF s = <<>> THEN TRUE
    ELSE IF t = <<>> THEN FALSE
    ELSE IF Ord(Head(s)) < Ord(Head(t)) THEN TRUE
    ELSE IF Ord(Head(s)) > Ord(Head(t)) THEN FALSE
    ELSE StrLeq(Tail(s), Tail(t))

----------------------------------------------------------------------------
(* parse_ip_from_line *)

NoAddress == <<>>    \* stands for None

\* Length of the longest prefix of s made of address characters: what the
\* greedy [0-9a-fA-F:.]+ consumes.
RECURSIVE IpPrefixLen(_)
IpPrefixLen(s) ==
    IF s # <<>> /\ IsIpChar(Head(s)) THEN 1 + IpPrefixLen(Tail(s)) ELSE 0

\* The pattern without its \s+ : an address is matched wherever it ends.
ReMatchPrefix(line) ==
    LET k == IpPrefixLen(line)
    IN  IF k >= 1 THEN SubSeq(line, 1, k) ELSE NoAddress

\* re.match(r'^([0-9a-fA-F:.]+)\s+', line): the group, or NoAddress.  No
\* shorter prefix can match, since the character after it is an address
\* character and not whitespace.
ReMatch(line) ==
    LET k == IpPrefixLen(line)
    IN  IF k >= 1 /\ k < Len(line) /\ IsSpace(line[k + 1])
        THEN SubSeq(line, 1, k)
        ELSE NoAddress

parse_ip_from_line(line) ==
    LET ip == ReMatch(line)
    IN  IF ip # NoAddress /\ (\E j \in 1..Len(ip) : ip[j] \in {".", ":"})
        THEN ip
        ELSE NoAddress

----------------------------------------------------------------------------
(* test_dns_server *)

\* What resolver.resolve does: it returns an answer set ("answer") with a
\* number of records after some elapsed time, or raises.
Raises == {"Timeout", "NoNameservers", "NoAnswer", "NXDOMAIN", "OSError"}

\* A probe that trusts any non-empty answer, however long it took.
test_dns_server_untimed(q, timeout) ==
    IF q.setup = "raise" THEN "Raise"
    ELSE IF q.kind = "answer"
         THEN IF q.records > 0 THEN "True" ELSE "False"
    ELSE IF q.kind = "Timeout" THEN "False"
    ELSE IF q.kind = "NoNameservers" THEN "False"
    ELSE IF q.kind = "NoAnswer" THEN "True"
    ELSE "False"

\* A probe without the catch-all clause: an exception it does not name
\* leaves the function.
test_dns_server_no_catch_all(q, timeout) ==
    IF q.setup = "raise" THEN "Raise"
    ELSE IF q.kind = "answer"
         THEN IF q.records > 0 /\ q.elapsed <= timeout THEN "True" ELSE "False"
    ELSE IF q.kind = "Timeout" THEN "False"
    ELSE IF q.kind = "NoNameservers" THEN "False"
    ELSE IF q.kind = "NoAnswer" THEN "True"
    ELSE "Raise"

\* The body of test_dns_server for one behaviour q of the resolver, with the
\* timeout it was given.  "Raise" is an exception leaving the function: the
\* set-up of the resolver is outside the try block.
test_dns_server(q, timeout) ==
    IF q.setup = "raise" THEN "Raise"
    ELSE IF q.kind = "answer"
         THEN IF q.records > 0 /\ q.elapsed <= timeout THEN "True" ELSE "False"
    ELSE IF q.kind = "Timeout" THEN "False"
    ELSE IF q.kind = "NoNameservers" THEN "False"
    ELSE IF q.kind = "NoAnswer" THEN "True"
    ELSE "False"

----------------------------------------------------------------------------
(* list.sort() *)

RECURSIVE Insert(_, _)
Insert(x, s) ==
    IF s = <<>> THEN <<x>>
    ELSE IF StrLeq(x, Head(s)) THEN <<x>> \o s
    ELSE <<Head(s)>> \o Insert(x, Tail(s))

\* A sort that was forgotten: the list stays in completion order.
SortKeepsOrder(s) == s

RECURSIVE Sort(_)
Sort(s) == IF s = <<>> THEN <<>> ELSE Insert(Head(s), Sort(Tail(s)))

----------------------------------------------------------------------------
(* Inputs *)

\* Lines as the file iterator yields them, newline included.
BlankLine   == <<"\n">>
CommentLine == <<"#", "\n">>
BareAddress == <<"1", ".", "\n">>                 \* an address and nothing after it
ServerA     == <<"2", ".", " ", "a", "\n">>
ServerB     == <<" ", "1", ".", " ", "b", "\n">>  \* indented

InputLines == {BlankLine, CommentLine, BareAddress, ServerA, ServerB}

Files == UNION {[1..n -> InputLines] : n \in 0..MaxLines}

\* args.timeout
Timeout == 1

\* Behaviours of the resolver used for the probes of a run.
Answered   == [setup |-> "ok", kind |-> "answer", records |-> 1, elapsed |-> 0]
NoData     == [setup |-> "ok", kind |-> "NoAnswer", records |-> 0, elapsed |-> 0]
TimedOut   == [setup |-> "ok", kind |-> "Timeout", records |-> 0, elapsed |-> Timeout]
Unexpected == [setup |-> "ok", kind |-> "OSError", records |-> 0, elapsed |-> 0]
BadSetup   == [setup |-> "raise", kind |-> "answer", records |-> 0, elapsed |-> 0]

RunBehaviours == {Answered, NoData, TimedOut, Unexpected, BadSetup}

\* Every behaviour of the resolver, for a single call of test_dns_server.
Behaviours ==
    [setup : {"ok", "raise"}, kind : {"answer"} \cup Raises,
     records : 0..MaxRecords, elapsed : 0..MaxElapsed]

\* The lines of a file that the reading loop turns into candidates.
IsCandidate(raw) ==
    LET line == Strip(raw)
    IN  line # <<>> /\ ~StartsWith(line, "#") /\ parse_ip_from_line(line) # NoAddress

NumCandidates(f) == Cardinality({i \in 1..Len(f) : IsCandidate(f[i])})

NoCall == [q |-> Answered, timeout |-> Timeout]

\* No line was given to the body of the reading loop.
NoResult == [outcome |-> "unused", ip |-> NoAddress]

----------------------------------------------------------------------------
(* main *)

Init ==
    /\ file \in Files
    /\ dns \in [1..NumCandidates(file) -> RunBehaviours]
    /\ workers \in 0..MaxWorkers
    /\ pc = "read"
    /\ lineNo = 0
    /\ servers_to_test = <<>>
    /\ warnings = <<>>
    /\ total_servers = 0
    /\ submitted = 0
    /\ queue = <<>>
    /\ nThreads = 0
    /\ idleSem = 0
    /\ inSubmit = FALSE
    /\ adjust = "none"
    /\ loopAt = "next"
    /\ cur = 0
    /\ taken = {}
    /\ running = {}
    /\ releasing = 0
    /\ future = <<>>
    /\ probeCount = <<>>
    /\ consumed = {}
    /\ tested_count = 0
    /\ responsive_servers = <<>>
    /\ statuses = <<>>
    /\ outState = "untouched"
    /\ outFile = <<>>
    /\ written = 0
    /\ exitStatus = -1
    /\ message = "none"
    /\ progress = <<>>
    /\ pq = NoCall
    /\ pres = "unused"
    /\ pline = <<>>
    /\ pip = NoResult

\* A reading loop that keeps the address of a candidate and drops the rest of
\* its line.
ReadLineKeepsAddress ==
    /\ pc = "read"
    /\ lineNo < Len(file)
    /\ LET line == Strip(file[lineNo + 1])
       IN  IF line = <<>> \/ StartsWith(line, "#")
           THEN UNCHANGED <<servers_to_test, warnings>>
           ELSE LET ip == parse_ip_from_line(line)
                IN  IF ip # NoAddress
                    THEN /\ servers_to_test' =
                              Append(servers_to_test,
                                     [ip |-> ip, original_line |-> ip])
                         /\ UNCHANGED warnings
                    ELSE /\ warnings' =
                              Append(warnings, [lineno |-> lineNo + 1, line |-> line])
                         /\ UNCHANGED servers_to_test
    /\ lineNo' = lineNo + 1
    /\ UNCHANGED <<file, dns, workers, pc, total_servers, submitted, queue,
                   nThreads, idleSem, running, future, probeCount, consumed,
                   tested_count, responsive_servers, statuses, outState,
                   outFile, written, exitStatus, message,
                   pq, pres, pline, pip, progress,
                   inSubmit, taken, releasing,
                   adjust, loopAt, cur>>

\* A reading loop that reports the index enumerate gives, counted from 0.
ReadLineZeroBased ==
    /\ pc = "read"
    /\ lineNo < Len(file)
    /\ LET line == Strip(file[lineNo + 1])
       IN  IF line = <<>> \/ StartsWith(line, "#")
           THEN UNCHANGED <<servers_to_test, warnings>>
           ELSE LET ip == parse_ip_from_line(line)
                IN  IF ip # NoAddress
                    THEN /\ servers_to_test' =
                              Append(servers_to_test,
                                     [ip |-> ip, original_line |-> line])
                         /\ UNCHANGED warnings
                    ELSE /\ warnings' =
                              Append(warnings, [lineno |-> lineNo, line |-> line])
                         /\ UNCHANGED servers_to_test
    /\ lineNo' = lineNo + 1
    /\ UNCHANGED <<file, dns, workers, pc, total_servers, submitted, queue,
                   nThreads, idleSem, running, future, probeCount, consumed,
                   tested_count, responsive_servers, statuses, outState,
                   outFile, written, exitStatus, message,
                   pq, pres, pline, pip, progress,
                   inSubmit, taken, releasing,
                   adjust, loopAt, cur>>

\* One iteration of the reading loop (lines 101-110).
ReadLine ==
    /\ pc = "read"
    /\ lineNo < Len(file)
    /\ LET line == Strip(file[lineNo + 1])
       IN  IF line = <<>> \/ StartsWith(line, "#")
           THEN UNCHANGED <<servers_to_test, warnings>>
           ELSE LET ip == parse_ip_from_line(line)
                IN  IF ip # NoAddress
                    THEN /\ servers_to_test' =
                              Append(servers_to_test,
                                     [ip |-> ip, original_line |-> line])
                         /\ UNCHANGED warnings
                    ELSE /\ warnings' =
                              Append(warnings, [lineno |-> lineNo + 1, line |-> line])
                         /\ UNCHANGED servers_to_test
    /\ lineNo' = lineNo + 1
    /\ UNCHANGED <<file, dns, workers, pc, total_servers, submitted, queue,
                   nThreads, idleSem, running, future, probeCount, consumed,
                   tested_count, responsive_servers, statuses, outState,
                   outFile, written, exitStatus, message,
                   pq, pres, pline, pip, progress,
                   inSubmit, taken, releasing,
                   adjust, loopAt, cur>>

\* The file is exhausted and closed.
EndOfFile ==
    /\ pc = "read"
    /\ lineNo = Len(file)
    /\ pc' = "check"
    /\ UNCHANGED <<file, dns, workers, lineNo, servers_to_test, warnings,
                   total_servers, submitted, queue, nThreads, idleSem, running,
                   future, probeCount, consumed, tested_count,
                   responsive_servers, statuses, outState, outFile, written,
                   exitStatus, message,
                   pq, pres, pline, pip, progress,
                   inSubmit, taken, releasing,
                   adjust, loopAt, cur>>

\* A reader that reports the failure and goes on with the lines it has.
ReadErrorSwallowed ==
    /\ pc = "read"
    /\ pc' = "check"
    /\ \E m \in {"Input file not found", "Error reading input file"} :
          /\ (m = "Input file not found" => lineNo = 0)
          /\ message' = m
    /\ UNCHANGED <<file, dns, workers, lineNo, servers_to_test, warnings,
                   total_servers, submitted, queue, nThreads, idleSem, running,
                   future, probeCount, consumed, tested_count,
                   responsive_servers, statuses, outState, outFile, written,
                   exitStatus, pq, pres, pline, pip, progress,
                   inSubmit, taken, releasing,
                   adjust, loopAt, cur>>

\* open() or a read raises (lines 112-117): sys.exit(1).  Only open() raises
\* FileNotFoundError.
ReadError ==
    /\ pc = "read"
    /\ pc' = "exit"
    /\ exitStatus' = 1
    /\ \E m \in {"Input file not found", "Error reading input file"} :
          /\ (m = "Input file not found" => lineNo = 0)
          /\ message' = m
    /\ UNCHANGED <<file, dns, workers, lineNo, servers_to_test, warnings,
                   total_servers, submitted, queue, nThreads, idleSem, running,
                   future, probeCount, consumed, tested_count,
                   responsive_servers, statuses, outState, outFile, written,
                   pq, pres, pline, pip, progress,
                   inSubmit, taken, releasing,
                   adjust, loopAt, cur>>

\* A main without the early exit: an empty candidate list goes on to the pool
\* and to the write.
CheckServersNoEarlyExit ==
    /\ pc = "check"
    /\ pc' = "pool"
    /\ total_servers' = Len(servers_to_test)
    /\ future' = [i \in 1..Len(servers_to_test) |-> "pending"]
    /\ probeCount' = [i \in 1..Len(servers_to_test) |-> 0]
    /\ statuses' = [i \in 1..Len(servers_to_test) |-> "none"]
    /\ UNCHANGED <<file, dns, workers, lineNo, servers_to_test, warnings,
                   submitted, queue, nThreads, idleSem, running, consumed,
                   tested_count, responsive_servers, outState, outFile,
                   written, exitStatus, message, pq, pres, pline, pip,
                   progress, inSubmit, taken, releasing,
                   adjust, loopAt, cur>>

\* Lines 119-127.
CheckServers ==
    /\ pc = "check"
    /\ IF servers_to_test = <<>>
       THEN /\ pc' = "exit"
            /\ exitStatus' = 0
            /\ message' = "No valid servers found"
            /\ UNCHANGED <<total_servers, future, probeCount, statuses>>
       ELSE /\ pc' = "pool"
            /\ total_servers' = Len(servers_to_test)
            /\ future' = [i \in 1..Len(servers_to_test) |-> "pending"]
            /\ probeCount' = [i \in 1..Len(servers_to_test) |-> 0]
            /\ statuses' = [i \in 1..Len(servers_to_test) |-> "none"]
            /\ UNCHANGED <<exitStatus, message>>
    /\ UNCHANGED <<file, dns, workers, lineNo, servers_to_test, warnings,
                   submitted, queue, nThreads, idleSem, running, consumed,
                   tested_count, responsive_servers, outState, outFile,
                   written, pq, pres, pline, pip, progress,
                   inSubmit, taken, releasing,
                   adjust, loopAt, cur>>

\* ThreadPoolExecutor(max_workers=args.workers), line 130: a ValueError for
\* max_workers <= 0, which nothing catches.
CreateExecutor ==
    /\ pc = "pool"
    /\ IF workers <= 0
       THEN pc' = "exit" /\ exitStatus' = 1 /\ message' = "ValueError"
       ELSE pc' = "run" /\ UNCHANGED <<exitStatus, message>>
    /\ UNCHANGED <<file, dns, workers, lineNo, servers_to_test, warnings,
                   total_servers, submitted, queue, nThreads, idleSem, running,
                   future, probeCount, consumed, tested_count,
                   responsive_servers, statuses, outState, outFile, written,
                   pq, pres, pline, pip, progress,
                   inSubmit, taken, releasing,
                   adjust, loopAt, cur>>

\* executor.submit for the next server of the list (line 132), up to the put
\* of the work item on the executor's queue.  A worker may take the item
\* before submit goes on.
SubmitPut ==
    /\ pc = "run"
    /\ ~ inSubmit
    /\ submitted < total_servers
    /\ queue' = Append(queue, submitted + 1)
    /\ inSubmit' = TRUE
    /\ adjust' = "acquire"
    /\ UNCHANGED <<file, dns, workers, pc, lineNo, servers_to_test, warnings,
                   total_servers, submitted, nThreads, idleSem, taken, running,
                   releasing, future, probeCount, consumed, loopAt, cur,
                   tested_count, responsive_servers, statuses, progress,
                   outState, outFile, written, exitStatus, message, pq, pres,
                   pline, pip>>

\* executor.submit, the thread-count adjustment: the idle semaphore is tried
\* without waiting.  If a worker is idle it is claimed and nothing else is
\* done.
SubmitAcquire ==
    /\ pc = "run"
    /\ adjust = "acquire"
    /\ IF idleSem > 0
       THEN idleSem' = idleSem - 1 /\ adjust' = "return"
       ELSE adjust' = "start" /\ UNCHANGED idleSem
    /\ UNCHANGED <<file, dns, workers, pc, lineNo, servers_to_test, warnings,
                   total_servers, submitted, inSubmit, queue, nThreads, taken,
                   running, releasing, future, probeCount, consumed, loopAt,
                   cur, tested_count, responsive_servers, statuses, progress,
                   outState, outFile, written, exitStatus, message, pq, pres,
                   pline, pip>>

\* executor.submit, no worker was idle: a thread is started unless the pool
\* already has max_workers of them.  The new thread runs from here on.
SubmitStartThread ==
    /\ pc = "run"
    /\ adjust = "start"
    /\ nThreads' = IF nThreads < workers THEN nThreads + 1 ELSE nThreads
    /\ adjust' = "return"
    /\ UNCHANGED <<file, dns, workers, pc, lineNo, servers_to_test, warnings,
                   total_servers, submitted, inSubmit, queue, idleSem, taken,
                   running, releasing, future, probeCount, consumed, loopAt,
                   cur, tested_count, responsive_servers, statuses, progress,
                   outState, outFile, written, exitStatus, message, pq, pres,
                   pline, pip>>

\* executor.submit returns the future to the dict comprehension of line 132.
SubmitReturn ==
    /\ pc = "run"
    /\ adjust = "return"
    /\ submitted' = submitted + 1
    /\ inSubmit' = FALSE
    /\ adjust' = "none"
    /\ UNCHANGED <<file, dns, workers, pc, lineNo, servers_to_test, warnings,
                   total_servers, queue, nThreads, idleSem, taken, running,
                   releasing, future, probeCount, consumed, loopAt, cur,
                   tested_count, responsive_servers, statuses, progress,
                   outState, outFile, written, exitStatus, message, pq, pres,
                   pline, pip>>

\* Worker threads that hold a work item or have not yet reported idle.
Busy == Cardinality(taken) + Cardinality(running) + releasing

\* A pool that starts a thread per work item, whatever max_workers says.
TakeWorkUnbounded ==
    /\ pc = "run"
    /\ queue # <<>>
    /\ taken' = taken \cup {Head(queue)}
    /\ queue' = Tail(queue)
    /\ UNCHANGED <<file, dns, workers, pc, lineNo, servers_to_test, warnings,
                   total_servers, submitted, inSubmit, nThreads, idleSem,
                   running, releasing, future, probeCount, consumed,
                   tested_count, responsive_servers, statuses, outState,
                   outFile, written, exitStatus, message,
                   pq, pres, pline, pip, progress,
                   adjust, loopAt, cur>>

\* A pool whose work queue is a stack: a free worker takes the item that was
\* put last.
TakeWorkLifo ==
    /\ pc = "run"
    /\ queue # <<>>
    /\ Busy < nThreads
    /\ taken' = taken \cup {queue[Len(queue)]}
    /\ queue' = SubSeq(queue, 1, Len(queue) - 1)
    /\ UNCHANGED <<file, dns, workers, pc, lineNo, servers_to_test, warnings,
                   total_servers, submitted, inSubmit, nThreads, idleSem,
                   running, releasing, future, probeCount, consumed,
                   tested_count, responsive_servers, statuses, outState,
                   outFile, written, exitStatus, message,
                   pq, pres, pline, pip, progress,
                   adjust, loopAt, cur>>

\* A free worker thread takes the head of the work queue (work_queue.get in
\* the worker's loop).
TakeWork ==
    /\ pc = "run"
    /\ queue # <<>>
    /\ Busy < nThreads
    /\ taken' = taken \cup {Head(queue)}
    /\ queue' = Tail(queue)
    /\ UNCHANGED <<file, dns, workers, pc, lineNo, servers_to_test, warnings,
                   total_servers, submitted, inSubmit, nThreads, idleSem,
                   running, releasing, future, probeCount, consumed,
                   tested_count, responsive_servers, statuses, outState,
                   outFile, written, exitStatus, message,
                   pq, pres, pline, pip, progress,
                   adjust, loopAt, cur>>

\* The worker that took candidate i calls test_dns_server for it.
StartProbe(i) ==
    /\ pc = "run"
    /\ i \in taken
    /\ taken' = taken \ {i}
    /\ running' = running \cup {i}
    /\ probeCount' = [probeCount EXCEPT ![i] = @ + 1]
    /\ UNCHANGED <<file, dns, workers, pc, lineNo, servers_to_test, warnings,
                   total_servers, submitted, inSubmit, queue, nThreads,
                   idleSem, releasing, future, consumed, tested_count,
                   responsive_servers, statuses, outState, outFile, written,
                   exitStatus, message, pq, pres, pline, pip, progress,
                   adjust, loopAt, cur>>

\* A worker that retries: a probe that did not return True is queued again.
FinishProbeRetry(i) ==
    /\ pc = "run"
    /\ i \in running
    /\ IF test_dns_server(dns[i], Timeout) = "True" \/ probeCount[i] >= 2
       THEN /\ future' = [future EXCEPT ![i] = test_dns_server(dns[i], Timeout)]
            /\ UNCHANGED queue
       ELSE /\ queue' = Append(queue, i)
            /\ UNCHANGED future
    /\ running' = running \ {i}
    /\ releasing' = releasing + 1
    /\ UNCHANGED <<file, dns, workers, pc, lineNo, servers_to_test, warnings,
                   total_servers, submitted, inSubmit, nThreads, idleSem,
                   taken, probeCount, consumed, tested_count,
                   responsive_servers, statuses, outState, outFile, written,
                   exitStatus, message, pq, pres, pline, pip, progress,
                   adjust, loopAt, cur>>

\* A worker thread that ends after its first probe instead of going back to
\* the queue.
FinishProbeThreadEnds(i) ==
    /\ pc = "run"
    /\ i \in running
    /\ future' = [future EXCEPT ![i] = test_dns_server(dns[i], Timeout)]
    /\ running' = running \ {i}
    /\ nThreads' = nThreads - 1
    /\ UNCHANGED <<file, dns, workers, pc, lineNo, servers_to_test, warnings,
                   total_servers, submitted, inSubmit, queue, idleSem, taken,
                   releasing, probeCount, consumed, tested_count,
                   responsive_servers, statuses, outState, outFile, written,
                   exitStatus, message, pq, pres, pline, pip, progress,
                   adjust, loopAt, cur>>

\* A worker that counts its own probe when it returns, besides the count kept
\* by the loop over as_completed.
FinishProbeCounts(i) ==
    /\ pc = "run"
    /\ i \in running
    /\ future' = [future EXCEPT ![i] = test_dns_server(dns[i], Timeout)]
    /\ running' = running \ {i}
    /\ releasing' = releasing + 1
    /\ tested_count' = tested_count + 1
    /\ UNCHANGED <<file, dns, workers, pc, lineNo, servers_to_test, warnings,
                   total_servers, submitted, inSubmit, queue, nThreads,
                   idleSem, taken, probeCount, consumed, responsive_servers,
                   statuses, outState, outFile, written, exitStatus, message,
                   pq, pres, pline, pip, progress,
                   adjust, loopAt, cur>>

\* test_dns_server returns or raises in its worker and the future is
\* resolved (set_result / set_exception), which is what as_completed waits
\* for.  The worker has not yet reported itself idle.
FinishProbe(i) ==
    /\ pc = "run"
    /\ i \in running
    /\ future' = [future EXCEPT ![i] = test_dns_server(dns[i], Timeout)]
    /\ running' = running \ {i}
    /\ releasing' = releasing + 1
    /\ UNCHANGED <<file, dns, workers, pc, lineNo, servers_to_test, warnings,
                   total_servers, submitted, inSubmit, queue, nThreads,
                   idleSem, taken, probeCount, consumed, tested_count,
                   responsive_servers, statuses, outState, outFile, written,
                   exitStatus, message, pq, pres, pline, pip, progress,
                   adjust, loopAt, cur>>

\* A worker back from its work item releases the idle semaphore and returns
\* to the queue.
ReleaseIdle ==
    /\ pc = "run"
    /\ releasing > 0
    /\ releasing' = releasing - 1
    /\ idleSem' = idleSem + 1
    /\ UNCHANGED <<file, dns, workers, pc, lineNo, servers_to_test, warnings,
                   total_servers, submitted, inSubmit, queue, nThreads, taken,
                   running, future, probeCount, consumed, tested_count,
                   responsive_servers, statuses, outState, outFile, written,
                   exitStatus, message, pq, pres, pline, pip, progress,
                   adjust, loopAt, cur>>

\* An aggregator that drops a line it already holds.
ReadResultDedup ==
    /\ pc = "run"
    /\ loopAt = "result"
    /\ responsive_servers' =
          IF future[cur] = "True"
          THEN IF \E k \in 1..Len(responsive_servers) :
                      responsive_servers[k] = servers_to_test[cur].original_line
               THEN responsive_servers
               ELSE Append(responsive_servers,
                           servers_to_test[cur].original_line)
          ELSE responsive_servers
    /\ loopAt' = "status"
    /\ UNCHANGED <<file, dns, workers, pc, lineNo, servers_to_test, warnings,
                   total_servers, submitted, inSubmit, adjust, queue, nThreads,
                   idleSem, taken, running, releasing, future, probeCount,
                   consumed, cur, tested_count, statuses, progress, outState,
                   outFile, written, exitStatus, message, pq, pres, pline, pip>>

\* An aggregator that counts a candidate only if its result could be read:
\* tested_count += 1 placed after future.result().
ConsumeNextCountsLate(i) ==
    /\ pc = "run"
    /\ submitted = total_servers
    /\ loopAt = "next"
    /\ i \in 1..total_servers
    /\ i \notin consumed
    /\ future[i] # "pending"
    /\ consumed' = consumed \cup {i}
    /\ cur' = i
    /\ tested_count' = IF future[i] = "Raise" THEN tested_count ELSE tested_count + 1
    /\ loopAt' = "result"
    /\ UNCHANGED <<file, dns, workers, pc, lineNo, servers_to_test, warnings,
                   total_servers, submitted, inSubmit, adjust, queue, nThreads,
                   idleSem, taken, running, releasing, future, probeCount,
                   responsive_servers, statuses, progress, outState, outFile,
                   written, exitStatus, message, pq, pres, pline, pip>>

\* An aggregator without the try block around future.result(): an exception
\* of a probe ends the run.
ReadResultUncaught ==
    /\ pc = "run"
    /\ loopAt = "result"
    /\ IF future[cur] = "Raise"
       THEN /\ pc' = "exit"
            /\ exitStatus' = 1
            /\ message' = "Traceback"
            /\ UNCHANGED <<responsive_servers, loopAt>>
       ELSE /\ responsive_servers' =
                 IF future[cur] = "True"
                 THEN Append(responsive_servers,
                             servers_to_test[cur].original_line)
                 ELSE responsive_servers
            /\ loopAt' = "status"
            /\ UNCHANGED <<pc, exitStatus, message>>
    /\ UNCHANGED <<file, dns, workers, lineNo, servers_to_test, warnings,
                   total_servers, submitted, inSubmit, adjust, queue, nThreads,
                   idleSem, taken, running, releasing, future, probeCount,
                   consumed, cur, tested_count, statuses, progress, outState,
                   outFile, written, pq, pres, pline, pip>>

\* as_completed yields a finished future and the loop body starts: the
\* server is looked up and tested_count is incremented (lines 134-138).
ConsumeNext(i) ==
    /\ pc = "run"
    /\ submitted = total_servers
    /\ loopAt = "next"
    /\ i \in 1..total_servers
    /\ i \notin consumed
    /\ future[i] # "pending"
    /\ consumed' = consumed \cup {i}
    /\ cur' = i
    /\ tested_count' = tested_count + 1
    /\ loopAt' = "result"
    /\ UNCHANGED <<file, dns, workers, pc, lineNo, servers_to_test, warnings,
                   total_servers, submitted, inSubmit, adjust, queue, nThreads,
                   idleSem, taken, running, releasing, future, probeCount,
                   responsive_servers, statuses, progress, outState, outFile,
                   written, exitStatus, message, pq, pres, pline, pip>>

\* future.result() returns the probe's outcome or raises its exception; the
\* line of a responsive server is appended (lines 139-142).
ReadResult ==
    /\ pc = "run"
    /\ loopAt = "result"
    /\ responsive_servers' =
          IF future[cur] = "True"
          THEN Append(responsive_servers, servers_to_test[cur].original_line)
          ELSE responsive_servers
    /\ loopAt' = "status"
    /\ UNCHANGED <<file, dns, workers, pc, lineNo, servers_to_test, warnings,
                   total_servers, submitted, inSubmit, adjust, queue, nThreads,
                   idleSem, taken, running, releasing, future, probeCount,
                   consumed, cur, tested_count, statuses, progress, outState,
                   outFile, written, exitStatus, message, pq, pres, pline, pip>>

\* The status of the candidate is set: Responsive, No Response/Timeout, or
\* Error in the except clause (lines 143-148).
SetStatus ==
    /\ pc = "run"
    /\ loopAt = "status"
    /\ statuses' =
          [statuses EXCEPT ![cur] =
              IF future[cur] = "True" THEN "Responsive"
              ELSE IF future[cur] = "False" THEN "No Response/Timeout"
              ELSE "Error"]
    /\ loopAt' = "print"
    /\ UNCHANGED <<file, dns, workers, pc, lineNo, servers_to_test, warnings,
                   total_servers, submitted, inSubmit, adjust, queue, nThreads,
                   idleSem, taken, running, releasing, future, probeCount,
                   consumed, cur, tested_count, responsive_servers, progress,
                   outState, outFile, written, exitStatus, message, pq, pres,
                   pline, pip>>

\* The progress line is printed (line 151) and the loop goes back to
\* as_completed.
PrintProgress ==
    /\ pc = "run"
    /\ loopAt = "print"
    /\ progress' =
          Append(progress, [tested |-> tested_count, total |-> total_servers])
    /\ loopAt' = "next"
    /\ cur' = 0
    /\ UNCHANGED <<file, dns, workers, pc, lineNo, servers_to_test, warnings,
                   total_servers, submitted, inSubmit, adjust, queue, nThreads,
                   idleSem, taken, running, releasing, future, probeCount,
                   consumed, tested_count, responsive_servers, statuses,
                   outState, outFile, written, exitStatus, message, pq, pres,
                   pline, pip>>

\* The end of the loop without the sort.
TestingCompleteUnsorted ==
    /\ pc = "run"
    /\ submitted = total_servers
    /\ loopAt = "next"
    /\ consumed = 1..total_servers
    /\ releasing = 0
    /\ pc' = "write"
    /\ UNCHANGED <<file, dns, workers, lineNo, servers_to_test, warnings,
                   total_servers, submitted, queue, nThreads, idleSem, running,
                   future, probeCount, consumed, tested_count, statuses,
                   responsive_servers, outState, outFile, written, exitStatus,
                   message, pq, pres, pline, pip, progress,
                   inSubmit, taken, releasing,
                   adjust, loopAt, cur>>

\* A loop that stops at the first outcome instead of waiting for all of them.
TestingCompleteEarly ==
    /\ pc = "run"
    /\ submitted = total_servers
    /\ loopAt = "next"
    /\ consumed # {}
    /\ responsive_servers' = Sort(responsive_servers)
    /\ pc' = "write"
    /\ UNCHANGED <<file, dns, workers, lineNo, servers_to_test, warnings,
                   total_servers, submitted, queue, nThreads, idleSem, running,
                   future, probeCount, consumed, tested_count, statuses,
                   outState, outFile, written, exitStatus, message,
                   pq, pres, pline, pip, progress,
                   inSubmit, taken, releasing,
                   adjust, loopAt, cur>>

\* The loop ends and so does the with block, which joins the worker threads;
\* responsive_servers.sort() (lines 153-160).
TestingComplete ==
    /\ pc = "run"
    /\ submitted = total_servers
    /\ loopAt = "next"
    /\ consumed = 1..total_servers
    /\ releasing = 0
    /\ responsive_servers' = Sort(responsive_servers)
    /\ pc' = "write"
    /\ UNCHANGED <<file, dns, workers, lineNo, servers_to_test, warnings,
                   total_servers, submitted, queue, nThreads, idleSem, running,
                   future, probeCount, consumed, tested_count, statuses,
                   outState, outFile, written, exitStatus, message,
                   pq, pres, pline, pip, progress,
                   inSubmit, taken, releasing,
                   adjust, loopAt, cur>>

\* open(args.output_file, 'w'), line 163.
OpenOutput ==
    /\ pc = "write"
    /\ outState = "untouched"
    /\ outState' = "open"
    /\ outFile' = <<>>
    /\ UNCHANGED <<file, dns, workers, pc, lineNo, servers_to_test, warnings,
                   total_servers, submitted, queue, nThreads, idleSem, running,
                   future, probeCount, consumed, tested_count,
                   responsive_servers, statuses, written, exitStatus, message,
                   pq, pres, pline, pip, progress,
                   inSubmit, taken, releasing,
                   adjust, loopAt, cur>>

\* f_out.write(line + '\n'), lines 164-165.
WriteLine ==
    /\ pc = "write"
    /\ outState = "open"
    /\ written < Len(responsive_servers)
    /\ outFile' = Append(outFile, responsive_servers[written + 1] \o <<"\n">>)
    /\ written' = written + 1
    /\ UNCHANGED <<file, dns, workers, pc, lineNo, servers_to_test, warnings,
                   total_servers, submitted, queue, nThreads, idleSem, running,
                   future, probeCount, consumed, tested_count,
                   responsive_servers, statuses, outState, exitStatus, message,
                   pq, pres, pline, pip, progress,
                   inSubmit, taken, releasing,
                   adjust, loopAt, cur>>

\* The file is closed and main returns (line 166).
CloseOutput ==
    /\ pc = "write"
    /\ outState = "open"
    /\ written = Len(responsive_servers)
    /\ outState' = "closed"
    /\ pc' = "exit"
    /\ exitStatus' = 0
    /\ message' = "Responsive servers saved"
    /\ UNCHANGED <<file, dns, workers, lineNo, servers_to_test, warnings,
                   total_servers, submitted, queue, nThreads, idleSem, running,
                   future, probeCount, consumed, tested_count,
                   responsive_servers, statuses, outFile, written,
                   pq, pres, pline, pip, progress,
                   inSubmit, taken, releasing,
                   adjust, loopAt, cur>>

\* open() or a write raises (lines 167-169): sys.exit(1).
WriteError ==
    /\ pc = "write"
    /\ outState' = IF outState = "open" THEN "closed" ELSE outState
    /\ pc' = "exit"
    /\ exitStatus' = 1
    /\ message' = "Error writing output file"
    /\ UNCHANGED <<file, dns, workers, lineNo, servers_to_test, warnings,
                   total_servers, submitted, queue, nThreads, idleSem, running,
                   future, probeCount, consumed, tested_count,
                   responsive_servers, statuses, outFile, written,
                   pq, pres, pline, pip, progress,
                   inSubmit, taken, releasing,
                   adjust, loopAt, cur>>

Next ==
    \/ ReadLine
    \/ EndOfFile
    \/ ReadError
    \/ CheckServers
    \/ CreateExecutor
    \/ SubmitPut
    \/ SubmitAcquire
    \/ SubmitStartThread
    \/ SubmitReturn
    \/ TakeWork
    \/ \E i \in taken : StartProbe(i)
    \/ \E i \in running : FinishProbe(i)
    \/ ReleaseIdle
    \/ \E i \in 1..total_servers : ConsumeNext(i)
    \/ ReadResult
    \/ SetStatus
    \/ PrintProgress
    \/ TestingComplete
    \/ OpenOutput
    \/ WriteLine
    \/ CloseOutput
    \/ WriteError

Spec == Init /\ [][Next]_vars

\* The steps main takes by itself; a failure of the file system is not one.
MainStep ==
    \/ ReadLine
    \/ EndOfFile
    \/ CheckServers
    \/ CreateExecutor
    \/ SubmitPut
    \/ SubmitAcquire
    \/ SubmitStartThread
    \/ SubmitReturn
    \/ \E i \in 1..total_servers : ConsumeNext(i)
    \/ ReadResult
    \/ SetStatus
    \/ PrintProgress
    \/ TestingComplete
    \/ OpenOutput
    \/ WriteLine
    \/ CloseOutput

\* The main thread and the worker threads keep running: a step one of them
\* can take is eventually taken.  Nothing is assumed about how long a probe
\* stays in flight, nor about the file system.
FairSpec ==
    /\ Init
    /\ [][Next]_vars
    /\ WF_vars(MainStep)
    /\ WF_vars(TakeWork)
    /\ WF_vars(ReleaseIdle)
    /\ \A i \in 1..MaxLines : WF_vars(StartProbe(i))

----------------------------------------------------------------------------
(* A single call of test_dns_server, over every behaviour of the resolver *)

InitProbe ==
    /\ file = <<>>
    /\ dns = <<>>
    /\ workers = 1
    /\ pc = "call"
    /\ lineNo = 0
    /\ servers_to_test = <<>>
    /\ warnings = <<>>
    /\ total_servers = 0
    /\ submitted = 0
    /\ queue = <<>>
    /\ nThreads = 0
    /\ idleSem = 0
    /\ inSubmit = FALSE
    /\ adjust = "none"
    /\ loopAt = "next"
    /\ cur = 0
    /\ taken = {}
    /\ running = {}
    /\ releasing = 0
    /\ future = <<>>
    /\ probeCount = <<>>
    /\ consumed = {}
    /\ tested_count = 0
    /\ responsive_servers = <<>>
    /\ statuses = <<>>
    /\ outState = "untouched"
    /\ outFile = <<>>
    /\ written = 0
    /\ exitStatus = -1
    /\ message = "none"
    /\ pq \in [q : Behaviours, timeout : 1..MaxTimeout]
    /\ pres = "pending"
    /\ progress = <<>>
    /\ pline = <<>>
    /\ pip = NoResult

ProbeCall ==
    /\ pc = "call"
    /\ pres = "pending"
    /\ pres' = test_dns_server(pq.q, pq.timeout)
    /\ UNCHANGED <<mainVars, pq, pline, pip,
                   adjust, loopAt, cur>>

NextProbe == ProbeCall

SpecProbe == InitProbe /\ [][NextProbe]_vars

----------------------------------------------------------------------------
(* The body of the reading loop on a single line, over every short line *)

\* Whitespace, the comment mark, the two separators, a hexadecimal letter and
\* a letter that is not hexadecimal.
LineChars == {" ", "#", ".", ":", "a", "g"}

Lines == UNION {[1..n -> LineChars] : n \in 0..MaxLineLen}

InitParse ==
    /\ file = <<>>
    /\ dns = <<>>
    /\ workers = 1
    /\ pc = "parse"
    /\ lineNo = 0
    /\ servers_to_test = <<>>
    /\ warnings = <<>>
    /\ total_servers = 0
    /\ submitted = 0
    /\ queue = <<>>
    /\ nThreads = 0
    /\ idleSem = 0
    /\ inSubmit = FALSE
    /\ adjust = "none"
    /\ loopAt = "next"
    /\ cur = 0
    /\ taken = {}
    /\ running = {}
    /\ releasing = 0
    /\ future = <<>>
    /\ probeCount = <<>>
    /\ consumed = {}
    /\ tested_count = 0
    /\ responsive_servers = <<>>
    /\ statuses = <<>>
    /\ outState = "untouched"
    /\ outFile = <<>>
    /\ written = 0
    /\ exitStatus = -1
    /\ message = "none"
    /\ progress = <<>>
    /\ pq = NoCall
    /\ pres = "unused"
    /\ pline \in Lines
    /\ pip = [outcome |-> "pending", ip |-> NoAddress]

\* Lines 102-110 for one line: trimmed, then skipped in silence, taken as a
\* candidate with the address parse_ip_from_line returns, or warned about.
ParseLine ==
    /\ pc = "parse"
    /\ pip.outcome = "pending"
    /\ LET line == Strip(pline)
       IN  IF line = <<>> \/ StartsWith(line, "#")
           THEN pip' = [outcome |-> "skipped", ip |-> NoAddress]
           ELSE IF parse_ip_from_line(line) # NoAddress
                THEN pip' = [outcome |-> "candidate",
                             ip |-> parse_ip_from_line(line)]
                ELSE pip' = [outcome |-> "warning", ip |-> NoAddress]
    /\ UNCHANGED <<mainVars, pq, pres, pline>>

NextParse == ParseLine

SpecParse == InitParse /\ [][NextParse]_vars

----------------------------------------------------------------------------
(* Properties of a run *)

\* The text of a line of the output file, without its newline.
LineText(w) ==
    IF w # <<>> /\ w[Len(w)] = "\n" THEN SubSeq(w, 1, Len(w) - 1) ELSE w

\* Number of occurrences of x in a sequence.
Count(seq, x) == Cardinality({k \in 1..Len(seq) : seq[k] = x})

\* The as_completed loop has ended: line 153 was reached.
TestingDone ==
    \/ pc = "write"
    \/ pc = "exit" /\ message \in {"Responsive servers saved",
                                   "Error writing output file"}

\* The run ended normally, with the output file written and closed.
CompletedNormally ==
    pc = "exit" /\ exitStatus = 0 /\ message = "Responsive servers saved"

\* C1: in every reachable state, whatever the order in which the probes
\* completed and were consumed, the lines written to the output file so far
\* are in lexicographic non-decreasing order of their text.
C1_OutputSorted ==
    \A k \in 1..(Len(outFile) - 1) :
        StrLeq(LineText(outFile[k]), LineText(outFile[k + 1]))

\* A finished run with two workers whose output holds the two servers in
\* the opposite order of the input.
C1_Witness ==
    /\ CompletedNormally
    /\ workers = 2
    /\ file = <<ServerA, ServerB>>
    /\ outFile = <<Strip(ServerB) \o <<"\n">>, Strip(ServerA) \o <<"\n">>>>

\* C2: test_dns_server is called at most once for a candidate in every state
\* (a failed probe is not retried); every call is for an entry parsed from a
\* line of the file that is neither blank, nor a comment, nor rejected by the
\* extractor; and once the loop over the futures has ended there has been
\* exactly one call per candidate line of the file.
C2_ProbedOnce ==
    /\ Len(probeCount) \in {0, Len(servers_to_test)}
    /\ \A i \in 1..Len(probeCount) :
          /\ probeCount[i] <= 1
          /\ probeCount[i] = 1 =>
                \E n \in 1..Len(file) :
                    /\ IsCandidate(file[n])
                    /\ servers_to_test[i].original_line = Strip(file[n])
                    /\ servers_to_test[i].ip = parse_ip_from_line(Strip(file[n]))
    /\ TestingDone =>
          /\ Len(probeCount) = NumCandidates(file)
          /\ \A i \in 1..Len(probeCount) : probeCount[i] = 1

\* A finished run over a file with a skipped line, in which a probe failed
\* and was called once.
C2_Witness ==
    /\ CompletedNormally
    /\ \E n \in 1..Len(file) : ~IsCandidate(file[n])
    /\ \E i \in 1..Len(probeCount) : future[i] = "False" /\ probeCount[i] = 1

\* The texts that occur in the input (trimmed) or in the output.
Texts ==
    {Strip(file[n]) : n \in 1..Len(file)}
        \cup {LineText(outFile[k]) : k \in 1..Len(outFile)}

\* C3: when a run completes normally, every text occurs in the output file
\* (followed by a newline) exactly as many times as there are candidates of
\* that original_line whose probe returned True: duplicates are kept, and
\* nothing else is written.
C3_OutputIsResponsive ==
    CompletedNormally =>
        /\ \A t \in Texts :
              Count(outFile, t \o <<"\n">>) =
                  Cardinality({i \in 1..Len(servers_to_test) :
                                  /\ servers_to_test[i].original_line = t
                                  /\ future[i] = "True"})
        /\ Len(outFile) =
              Cardinality({i \in 1..Len(servers_to_test) : future[i] = "True"})

\* A finished run over a file with the same line twice, both responsive:
\* the output holds the line twice.
C3_Witness ==
    /\ CompletedNormally
    /\ Len(outFile) = 2
    /\ outFile[1] = outFile[2]

NumWithStatus(S) == Cardinality({i \in 1..Len(statuses) : statuses[i] \in S})

\* C4: once the loop over the futures has ended, every candidate has been
\* consumed exactly once: tested_count = total_servers = the number of
\* candidates, and the candidates reported Responsive (those appended to
\* responsive_servers) plus those reported not responsive (no response, or
\* an error) are all the candidates.
C4_Cardinality ==
    TestingDone =>
        /\ tested_count = total_servers
        /\ total_servers = Len(servers_to_test)
        /\ consumed = 1..Len(servers_to_test)
        /\ Len(responsive_servers) = NumWithStatus({"Responsive"})
        /\ NumWithStatus({"Responsive"})
              + NumWithStatus({"No Response/Timeout", "Error"})
              = Len(servers_to_test)

\* A finished run with a responsive candidate and one whose probe raised.
C4_Witness ==
    /\ CompletedNormally
    /\ NumWithStatus({"Responsive"}) = 1
    /\ NumWithStatus({"Error"}) = 1

\* C5: in every reachable state at most `workers` probes are in flight (the
\* workers that hold a work item or have not yet reported idle are threads of
\* the pool, which has at most `workers` of them); a queued candidate is held
\* by no worker and has not been probed; and while `workers` probes are in
\* flight no worker holds a further item or can take one from the queue.
C5_BoundedInFlight ==
    /\ Cardinality(running) <= workers
    /\ Busy <= nThreads
    /\ nThreads <= IF workers > 0 THEN workers ELSE 0
    /\ \A k \in 1..Len(queue) :
          /\ queue[k] \notin running \cup taken
          /\ probeCount[queue[k]] = 0
    /\ Cardinality(running) >= workers => taken = {} /\ ~ENABLED TakeWork

\* One worker, two candidates submitted: the first probe is in flight and
\* the second candidate waits in the queue.
C5_Witness ==
    /\ workers = 1
    /\ submitted = 2
    /\ running = {1}
    /\ queue = <<2>>

\* What test_dns_server does for candidate i, given the resolver's behaviour.
Verdict(i) == test_dns_server(dns[i], Timeout)

\* The probe of candidate i fails with an error the probe does not expect:
\* an exception of the query other than a timeout, NoNameservers and
\* NoAnswer, or an exception outside the try block.
UnexpectedError(i) ==
    \/ dns[i].setup = "raise"
    \/ dns[i].kind \notin {"answer", "Timeout", "NoNameservers", "NoAnswer"}

\* The status the loop reports for candidate i when its probe alone decides.
OwnStatus(i) ==
    IF Verdict(i) = "True" THEN "Responsive"
    ELSE IF Verdict(i) = "False" THEN "No Response/Timeout"
    ELSE "Error"

\* The candidates whose status the loop body has set.
StatusSet == {j \in consumed : ~ (j = cur /\ loopAt \in {"result", "status"})}

\* C8: once a probe has failed with an unexpected error, the run does not
\* leave the pool before the loop over the futures has ended; it exits with
\* status 1 only for a failed write; the failed candidate is reported not
\* responsive; every candidate whose status was set has the status its own
\* probe decides;
\* at the end of the loop every candidate was probed once and consumed; and a
\* run that completes holds the lines of the responsive candidates.
C8_FailureIsLocal ==
    (\E i \in 1..Len(future) : future[i] # "pending" /\ UnexpectedError(i)) =>
        /\ pc = "exit" => TestingDone
        /\ exitStatus = 1 => message = "Error writing output file"
        /\ \A j \in StatusSet :
              /\ statuses[j] = OwnStatus(j)
              /\ UnexpectedError(j) =>
                    statuses[j] \in {"No Response/Timeout", "Error"}
        /\ TestingDone =>
              \A j \in 1..Len(servers_to_test) :
                  j \in consumed /\ probeCount[j] = 1
        /\ CompletedNormally =>
              \A j \in 1..Len(servers_to_test) :
                  Count(outFile, servers_to_test[j].original_line \o <<"\n">>) =
                      Cardinality({k \in 1..Len(servers_to_test) :
                          /\ servers_to_test[k].original_line =
                                 servers_to_test[j].original_line
                          /\ Verdict(k) = "True"})

\* A finished run in which the query of one candidate raised an unexpected
\* exception and the other candidate is in the output.
C8_Witness ==
    /\ CompletedNormally
    /\ Len(servers_to_test) = 2
    /\ \E i, j \in 1..2 :
          /\ dns[i] = Unexpected
          /\ statuses[i] = "No Response/Timeout"
          /\ dns[j] = Answered
          /\ statuses[j] = "Responsive"
          /\ outFile = <<servers_to_test[j].original_line \o <<"\n">>>>

\* The pool is about to be created with at least one worker.
PoolStarts == pc = "pool" /\ workers >= 1 /\ total_servers >= 1

\* Every probe in flight returns, by an answer, a failure or its timeout:
\* FinishProbe(i) is enabled exactly while candidate i is being probed.
EveryProbeReturns ==
    \A i \in 1..MaxLines : WF_vars(FinishProbe(i))

\* The run has ended after the with block was entered and left: every
\* candidate read from the file was started and probed once and every outcome
\* was consumed.
AllProbedAtExit ==
    /\ pc = "exit"
    /\ TestingDone
    /\ total_servers = Len(servers_to_test)
    /\ total_servers >= 1
    /\ queue = <<>>
    /\ taken = {}
    /\ running = {}
    /\ releasing = 0
    /\ consumed = 1..Len(servers_to_test)
    /\ tested_count = Len(servers_to_test)
    /\ Len(probeCount) = Len(servers_to_test)
    /\ \A i \in 1..Len(servers_to_test) : probeCount[i] = 1

\* The final state with the output written.
RunOverWritten ==
    /\ AllProbedAtExit
    /\ message = "Responsive servers saved"
    /\ outState = "closed"
    /\ written = Len(responsive_servers)
    /\ Len(outFile) = Len(responsive_servers)

\* The final state: the output written, or the fatal exit of lines 167-169
\* after open() or a write raised.
RunOver ==
    \/ RunOverWritten
    \/ /\ AllProbedAtExit
       /\ message = "Error writing output file"
       /\ exitStatus = 1

\* A candidate at the head of the queue while a worker thread is free is
\* taken by a worker, whatever the probes in flight do, even if they never
\* return.
FreeWorkerTakesNext ==
    \A i \in 1..MaxLines :
        (pc = "run" /\ queue # <<>> /\ Head(queue) = i /\ Busy < nThreads)
            ~> (i \in taken \/ (i <= Len(probeCount) /\ probeCount[i] >= 1))

\* C9 as stated: when the threads run fairly and every probe returns
\* (answer, failure or timeout), a run that creates its pool with
\* workers >= 1 eventually ends with every candidate started, every outcome
\* consumed and the output written; and a probe still pending in one worker
\* never keeps a free worker from taking the next queued candidate.
C9_ForwardProgress ==
    /\ EveryProbeReturns => (PoolStarts ~> RunOverWritten)
    /\ FreeWorkerTakesNext

\* C9, amended: under the same hypotheses the run eventually ends with every
\* candidate started and every outcome consumed, and with the output written
\* unless opening or writing the output file fails, in which case it ends
\* with status 1; and a probe still pending in one worker never keeps a free
\* worker from taking the next queued candidate.
C9_ProgressUnlessWriteFails ==
    /\ EveryProbeReturns => (PoolStarts ~> RunOver)
    /\ FreeWorkerTakesNext

\* Two workers: the probe of the second candidate has failed and returned
\* while the probe of the first, which will time out, is still in flight.
C9_Witness ==
    /\ workers = 2
    /\ running = {1}
    /\ Len(future) = 2
    /\ Len(dns) = 2
    /\ dns[1] = TimedOut
    /\ dns[2] = Unexpected
    /\ future[2] = "False"

\* The probe's behaviour is the same for equal addresses.
FixedByAddress ==
    \A i, j \in 1..Len(servers_to_test) :
        servers_to_test[i].ip = servers_to_test[j].ip => dns[i] = dns[j]

\* The trimmed lines k.. of a list of candidate lines whose probe returns
\* True, in input order.
RECURSIVE ResponsiveFrom(_, _)
ResponsiveFrom(lines, k) ==
    IF k > Len(lines) THEN <<>>
    ELSE (IF Verdict(k) = "True" THEN <<Strip(lines[k])>> ELSE <<>>)
             \o ResponsiveFrom(lines, k + 1)

\* The output as a function of the input file and of the probe's behaviour
\* alone.
ExpectedOutput ==
    LET sorted == Sort(ResponsiveFrom(SelectSeq(file, IsCandidate), 1))
    IN  [k \in 1..Len(sorted) |-> sorted[k] \o <<"\n">>]

\* C10: with a probe whose behaviour is fixed by the address, the output of
\* a completed run is a function of the input file and of that behaviour
\* only: it is the same for every worker count and every completion order,
\* so two runs on the same input write the same file.
C10_Deterministic ==
    (CompletedNormally /\ FixedByAddress) => outFile = ExpectedOutput

\* A finished run with one worker over the two servers in descending order,
\* both responsive.
C10_Witness ==
    /\ CompletedNormally
    /\ FixedByAddress
    /\ workers = 1
    /\ file = <<ServerA, ServerB>>
    /\ Len(outFile) = 2

----------------------------------------------------------------------------
(* Properties of a single probe *)

\* The call has ended and resolver.resolve returned an answer set holding at
\* least one record.
ReturnedRecords ==
    /\ pres # "pending"
    /\ pq.q.setup = "ok"
    /\ pq.q.kind = "answer"
    /\ pq.q.records >= 1

\* C6 as stated: whenever the query returns an answer set with at least one
\* record, test_dns_server returns True.
C6_AnswerIsResponsive == ReturnedRecords => pres = "True"

\* C6: when the query returns an answer set with at least one record,
\* test_dns_server returns True if the time measured around the query is at
\* most the timeout, and False if it is longer.
C6_TimelyAnswerIsResponsive ==
    ReturnedRecords =>
        /\ pq.q.elapsed <= pq.timeout => pres = "True"
        /\ pq.q.elapsed > pq.timeout => pres = "False"

\* A call that returned True for an answer with a record, measured at exactly
\* the timeout.
C6_Witness ==
    /\ ReturnedRecords
    /\ pq.timeout > 0
    /\ pq.q.elapsed = pq.timeout
    /\ pres = "True"

\* C7: whenever resolver.resolve raises, test_dns_server returns a verdict
\* and raises nothing; the verdict is True for NoAnswer and False for a
\* timeout, for NoNameservers and for every other exception.
C7_FailuresClassified ==
    (pres # "pending" /\ pq.q.setup = "ok" /\ pq.q.kind \in Raises) =>
        /\ pres \in {"True", "False"}
        /\ pres = "True" <=> pq.q.kind = "NoAnswer"
        /\ pq.q.kind \in {"Timeout", "NoNameservers", "NXDOMAIN", "OSError"}
              => pres = "False"

\* A call in which the query raised NoAnswer and the probe returned True.
C7_Witness ==
    /\ pq.q.setup = "ok"
    /\ pq.q.kind = "NoAnswer"
    /\ pres = "True"

\* ---------------------------------------------------------------------------
\* C11.  The sort and the write come after the whole pool has drained: once
\* the program is past the loop (it sorts on leaving it), and so whenever the
\* output file has been opened or a line written, no candidate is queued or
\* in flight, every candidate was submitted, probed once and not cancelled,
\* its future is resolved and its outcome was consumed.
PastTheLoop == TestingDone \/ outState # "untouched" \/ outFile # <<>>

C11_WriteAfterAllProbes ==
    PastTheLoop =>
        /\ queue = <<>>
        /\ taken = {}
        /\ running = {}
        /\ releasing = 0
        /\ ~ inSubmit
        /\ submitted = total_servers
        /\ consumed = 1..total_servers
        /\ \A i \in 1..total_servers :
              /\ probeCount[i] = 1
              /\ future[i] # "pending"
              /\ statuses[i] # "none"

\* Two candidates, the first output line written, the second still to write.
C11_Witness ==
    /\ outState = "open"
    /\ total_servers = 2
    /\ Len(responsive_servers) = 2
    /\ written = 1

\* ---------------------------------------------------------------------------
\* C12.  A run ends with a non-zero exit status if and only if reading the
\* input failed or writing the output failed; every run in which both file
\* operations succeed exits with status 0.
FileFailures ==
    {"Input file not found", "Error reading input file",
     "Error writing output file"}

C12_NonZeroOnlyOnFileFailure ==
    pc = "exit" => (exitStatus # 0 <=> message \in FileFailures)

\* ---------------------------------------------------------------------------
\* C13.  An input that yields no candidate: the run never creates the pool,
\* submits or starts no probe and never opens the output file, and once the
\* input has been read to its end it exits with status 0 ("No valid servers
\* found").  (A failed read of such an input is the case of C14.)
NoProbeIssued ==
    /\ submitted = 0
    /\ ~ inSubmit
    /\ queue = <<>>
    /\ taken = {}
    /\ running = {}
    /\ \A i \in 1..Len(probeCount) : probeCount[i] = 0

OutputUntouched == outState = "untouched" /\ outFile = <<>> /\ written = 0

C13_NoCandidatesCleanExit ==
    (\A n \in 1..Len(file) : ~ IsCandidate(file[n])) =>
        /\ pc \in {"read", "check", "exit"}
        /\ NoProbeIssued
        /\ OutputUntouched
        /\ (pc = "exit" /\ message \notin FileFailures =>
               /\ exitStatus = 0
               /\ message = "No valid servers found"
               /\ ~ ENABLED Next)

\* A file of a comment and a line the extractor rejects, read to its end.
C13_Witness ==
    /\ file = <<CommentLine, BareAddress>>
    /\ pc = "exit"
    /\ exitStatus = 0
    /\ message = "No valid servers found"
    /\ outState = "untouched"

\* ---------------------------------------------------------------------------
\* C14.  A failure of the read, at the open or after any number of lines was
\* read and parsed: the run is over with exit status 1, no probe was
\* submitted or started and none will be, and the output file was not opened
\* and will not be.
ReadFailures == {"Input file not found", "Error reading input file"}

C14_ReadFailureIsFatal ==
    message \in ReadFailures =>
        /\ pc = "exit"
        /\ exitStatus = 1
        /\ NoProbeIssued
        /\ OutputUntouched
        /\ ~ ENABLED Next

\* The read fails after a candidate was already parsed.
C14_Witness ==
    /\ message = "Error reading input file"
    /\ lineNo >= 1
    /\ Len(servers_to_test) >= 1
    /\ lineNo < Len(file)
    /\ pc = "exit"

\* ---------------------------------------------------------------------------
\* C15 as stated.  For every trimmed line that reaches the extractor and
\* whose leading whitespace-delimited token contains "." or ":", the
\* extractor returns exactly that token.
RECURSIVE TokenLen(_)
TokenLen(s) ==
    IF s # <<>> /\ ~ IsSpace(Head(s)) THEN 1 + TokenLen(Tail(s)) ELSE 0

\* The leading whitespace-delimited token of a trimmed line.
FirstToken(s) == SubSeq(s, 1, TokenLen(s))

HasSeparator(t) == \E j \in 1..Len(t) : t[j] \in {".", ":"}

Extracted == pc = "parse" /\ pip.outcome \in {"candidate", "warning"}

C15_TokenIsReturned ==
    Extracted /\ HasSeparator(FirstToken(Strip(pline))) =>
        pip = [outcome |-> "candidate", ip |-> FirstToken(Strip(pline))]

\* C15.  For every trimmed line that reaches the extractor: if its leading
\* token is made of the characters [0-9a-fA-F:.] only, contains "." or ":"
\* and is followed by more text on the line, the extractor returns exactly
\* that token; a token that stands alone on its line, or holds any other
\* character, or has no "." or ":", gives no address.
C15_AddressTokenIsReturned ==
    Extracted =>
        LET line == Strip(pline)
            tok == FirstToken(line)
        IN  IF /\ HasSeparator(tok)
               /\ \A j \in 1..Len(tok) : IsIpChar(tok[j])
               /\ Len(tok) < Len(line)
            THEN pip = [outcome |-> "candidate", ip |-> tok]
            ELSE pip = [outcome |-> "warning", ip |-> NoAddress]

\* A line of an address and a name: the address is returned.
C15_Witness ==
    /\ pline = <<"a", ":", " ", "g">>
    /\ pip = [outcome |-> "candidate", ip |-> <<"a", ":">>]

\* ---------------------------------------------------------------------------
\* C16.  Among the lines read so far, each line that is neither blank nor a
\* comment and that the extractor rejects has exactly one warning, which
\* carries its 1-based position in the file (blank and comment lines count)
\* and its trimmed text, and it is no candidate; every other line (blank,
\* comment or accepted) has no warning; the candidates are the accepted lines.
\* This holds at every point of the reading loop and at its end, and no step
\* that leaves the reading phase or follows it changes the lines read, the
\* warnings or the candidates: so it holds in every reachable state.
Rejected(raw) ==
    LET line == Strip(raw)
    IN  /\ line # <<>>
        /\ ~ StartsWith(line, "#")
        /\ parse_ip_from_line(line) = NoAddress

WarningsFor(n) == {k \in 1..Len(warnings) : warnings[k].lineno = n}

WarningsMatch ==
    /\ \A n \in 1..lineNo :
          Cardinality(WarningsFor(n)) = IF Rejected(file[n]) THEN 1 ELSE 0
    /\ \A k \in 1..Len(warnings) :
          /\ warnings[k].lineno \in 1..lineNo
          /\ warnings[k].line = Strip(file[warnings[k].lineno])
    /\ Len(servers_to_test) =
          Cardinality({n \in 1..lineNo : IsCandidate(file[n])})
    /\ \A k \in 1..Len(servers_to_test) :
          \E n \in 1..lineNo :
              /\ ~ Rejected(file[n])
              /\ servers_to_test[k].original_line = Strip(file[n])

ReadingPhase == pc \in {"read", "check"}

InputFrozen == UNCHANGED <<file, lineNo, servers_to_test, warnings>>

C16_OneWarningPerRejectedLine ==
    /\ [](ReadingPhase => WarningsMatch)
    /\ [][pc' \notin {"read", "check"} => InputFrozen]_vars

\* A comment, then a line holding an address alone: one warning, for line 2.
C16_Witness ==
    /\ file = <<CommentLine, BareAddress>>
    /\ lineNo = 2
    /\ warnings = <<[lineno |-> 2, line |-> <<"1", ".">>]>>
    /\ servers_to_test = <<>>

\* ---------------------------------------------------------------------------
\* C17 as stated.  Each line of the output file is the exact input line of a
\* candidate, character for character, followed by one newline.
Unterminated(raw) ==
    IF raw # <<>> /\ raw[Len(raw)] = "\n" THEN SubSeq(raw, 1, Len(raw) - 1)
    ELSE raw

C17_ExactInputLine ==
    \A k \in 1..Len(outFile) :
        \E n \in 1..Len(file) :
            /\ IsCandidate(file[n])
            /\ outFile[k] = Unterminated(file[n]) \o <<"\n">>

\* C17.  Each line of the output file is the input line of a responsive
\* candidate with its leading and trailing whitespace removed and otherwise
\* character for character, the text after the address included, followed
\* by one newline; the collected lines are those same trimmed lines.
TrimmedLineOf(text) ==
    \E n \in 1..Len(file) : IsCandidate(file[n]) /\ text = Strip(file[n])

C17_TrimmedLinePreserved ==
    /\ \A k \in 1..Len(responsive_servers) :
          TrimmedLineOf(responsive_servers[k])
    /\ \A k \in 1..Len(outFile) :
          /\ outFile[k] = responsive_servers[k] \o <<"\n">>
          /\ \E i \in 1..total_servers :
                /\ future[i] = "True"
                /\ servers_to_test[i].original_line = LineText(outFile[k])
                /\ TrimmedLineOf(servers_to_test[i].original_line)

\* The indented line of a responsive server, written without its indent and
\* with the name that follows the address.
C17_Witness ==
    /\ CompletedNormally
    /\ file = <<ServerB>>
    /\ outFile = << <<"1", ".", " ", "b", "\n">> >>

\* ---------------------------------------------------------------------------
\* C18.  The counter and the accumulator move only with the outcomes the
\* loop over as_completed has taken, so no update is lost:
\* len(responsive_servers) <= tested_count <= total_servers, tested_count is
\* the number of outcomes taken so far, the accumulator holds one line per
\* outcome that was True and has been read, the reports printed are one per
\* finished iteration (the iteration under way has counted and not yet
\* printed), and the k-th progress report shows k/total_servers.
C18_SingleConsumerCounts ==
    /\ Len(responsive_servers) <= tested_count
    /\ tested_count <= total_servers
    /\ tested_count = Cardinality(consumed)
    /\ \A i \in consumed : future[i] # "pending"
    /\ (loopAt = "next") = (cur = 0)
    /\ cur # 0 => cur \in consumed
    /\ Len(responsive_servers) =
          Cardinality({i \in consumed :
                          future[i] = "True" /\ ~ (i = cur /\ loopAt = "result")})
    /\ Len(progress) = tested_count - (IF loopAt = "next" THEN 0 ELSE 1)
    /\ \A k \in 1..Len(progress) :
          progress[k] = [tested |-> k, total |-> total_servers]

\* The first of two outcomes was consumed and found responsive while a
\* worker is still busy with the other probe.
C18_Witness ==
    /\ total_servers = 2
    /\ running # {}
    /\ tested_count = 1
    /\ Len(responsive_servers) = 1
    /\ progress = <<[tested |-> 1, total |-> 2]>>

\* ---------------------------------------------------------------------------
\* C19 as stated.  Probes are started in input order: a candidate's probe
\* has started only if the probe of every candidate of an earlier line has.
C19_ProbesStartInInputOrder ==
    \A i \in 1..Len(probeCount) : \A j \in 1..Len(probeCount) :
        j < i /\ probeCount[i] >= 1 => probeCount[j] >= 1

CandidateLines == SelectSeq(SubSeq(file, 1, lineNo), IsCandidate)

InLineOrder ==
    /\ Len(servers_to_test) = Len(CandidateLines)
    /\ \A k \in 1..Len(servers_to_test) :
          servers_to_test[k].original_line = Strip(CandidateLines[k])

Queued(i) == \E k \in 1..Len(queue) : queue[k] = i

StartedInQueueOrder ==
    /\ \A k \in 1..Len(queue) :
          /\ queue[k] <= submitted + (IF inSubmit THEN 1 ELSE 0)
          /\ \A l \in 1..Len(queue) : k < l => queue[k] < queue[l]
    /\ \A i \in 1..Len(probeCount) : \A j \in 1..Len(probeCount) :
          j < i /\ (i \in taken \/ probeCount[i] >= 1) =>
              /\ j <= submitted
              /\ ~ Queued(j)
              /\ j \in taken \/ probeCount[j] >= 1

\* C19.  Work items leave the queue in input order: the candidates stand in
\* the order of their lines (fixed once the reading is over), they are put
\* on the queue and wait there in that order, and a candidate that a worker
\* has taken or whose probe has started has no candidate of an earlier line
\* still waiting in the queue: each earlier one was put and has left the
\* queue before.  Two workers that both hold an item may call the probe in
\* either order.
C19_StartedInInputOrder ==
    /\ [](ReadingPhase => InLineOrder)
    /\ [][pc' \notin {"read", "check"} =>
             UNCHANGED <<file, lineNo, servers_to_test>>]_vars
    /\ []StartedInQueueOrder

\* Two workers: the second candidate's probe is in flight, the first
\* candidate has left the queue and its worker has not called the probe yet.
C19_Witness ==
    /\ workers = 2
    /\ total_servers = 2
    /\ queue = <<>>
    /\ taken = {1}
    /\ running = {2}
    /\ probeCount = <<0, 1>>

====
